---------------------------- MODULE Spec2Model ----------------------------
(***************************************************************************)
(* Model of the Bluetext setup extension: the MCP health monitor and the   *)
(* JSON-RPC client of src/src/mcpService.ts, the webview message handler   *)
(* of src/src/commands.ts (activate) and the tool-parameter collection of  *)
(* the wizard webview script (runTool / collectToolParams).                *)
(*                                                                         *)
(* `out` holds the messages the last step handed to WizardPanel            *)
(* (logToTerminal, updateStepStatus, sendMessage): it is rewritten by      *)
(* every step, so "publishes nothing" reads out' = << >>.                   *)
(***************************************************************************)
EXTENDS Integers, Sequences, FiniteSets, Bags, TLC

\* ------------------------------------------------------------------ bounds
MaxSessions == 2
MaxInFlight == 2
MaxPendingStarts == 1
MaxCalls == 2
MaxTools == 2
MaxParams == 2
MaxListeners == 2

VARIABLES
    isMonitoring,          \* McpService.isMonitoring
    healthCheckInterval,   \* McpService.healthCheckInterval: 0 is undefined, else a timer id
    armed,                 \* the interval timers setInterval created and clearInterval has not cleared
    session,               \* number of startHealthMonitoring() calls that passed the guard
    probes,                \* bag of health-check requests in flight
    pendingStarts,         \* handlers that set step 4 'done' and wait 7 s before startHealthMonitoring()
    server,                \* the MCP server: "up" answers, "down" refuses or resets, "hung" accepts and is silent
    stepStatus,            \* the wizard's step statuses, as the updateStepStatus messages set them
    downReports,           \* how often handleServerDown has reported since the last start
    calls,                 \* the fetchTools()/executeTool() calls the message handler has made
    availableTools,        \* wizard.js: the tools the webview last rendered
    toolsShown,            \* wizard.js: which of #tools-list, #tools-error, #tools-empty is displayed
    inputs,                \* wizard.js: the .tool-param-input elements of each rendered tool
    executedTools,         \* wizard.js: indexes of the tools that have been run
    posted,                \* messages the webview posted to the extension in the step that led here
    alerts,                \* alert() boxes the webview raised in the step that led here
    workspaceFolder,       \* whether vscode.workspace.workspaceFolders has a first folder
    polytopeYml,           \* the file polytope.yml of the workspace root
    clineSettings,         \* the file cline_mcp_settings.json
    returned,              \* what the last createPolytopeYml() returned
    panel,                 \* whether WizardPanel.panel is defined
    listeners,             \* handlers registered with onDidReceiveMessage on the panel's webview
    terminal,              \* texts handed to terminal.sendText by the step that led here
    last,                  \* the operation that led here
    out                    \* messages handed to the panel by the step that led here

monVars_noLast == <<isMonitoring, healthCheckInterval, armed, session, probes,
                   pendingStarts, server, stepStatus, downReports>>
monVars == <<monVars_noLast, last>>
uiVars == <<availableTools, inputs, executedTools, posted, alerts>>
fsVars == <<workspaceFolder, polytopeYml, clineSettings, returned>>
panelVars == <<panel, listeners>>
vars == <<monVars, calls, uiVars, toolsShown, fsVars, panelVars, terminal, out>>

Status == {"pending", "doing", "done", "error"}
ServerModes == {"up", "down", "hung"}
BodyKinds == {"json", "notjson"}
Sessions == 1..MaxSessions

\* -------------------------------------------------------- panel messages
logToTerminal(message, type) ==
    [command |-> "terminalOutput", message |-> message, type |-> type]

updateStepStatus(stepNumber, status) ==
    [command |-> "updateStepStatus", stepNumber |-> stepNumber, status |-> status]

DownLine == logToTerminal("MCP server is not responding - resetting step 4", "error")
Step4Pending == updateStepStatus(4, "pending")

\* The step statuses after the updateStepStatus messages of `msgs`, in order.
RECURSIVE ApplySteps(_, _)
ApplySteps(st, msgs) ==
    IF msgs = << >> THEN st
    ELSE LET m == Head(msgs)
             st1 == IF m.command = "updateStepStatus"
                    THEN [st EXCEPT ![m.stepNumber] = m.status]
                    ELSE st
         IN ApplySteps(st1, Tail(msgs))

\* ------------------------------------------------------------- McpService
\* The monitor's fields, and what the running handler has emitted so far.
Mon == [isMonitoring |-> isMonitoring,
        healthCheckInterval |-> healthCheckInterval,
        armed |-> armed,
        session |-> session,
        downReports |-> downReports,
        emitted |-> << >>]

stopHealthMonitoring(m) ==
    LET cleared == IF m.healthCheckInterval # 0
                   THEN [m EXCEPT !.armed = @ \ {m.healthCheckInterval},
                                  !.healthCheckInterval = 0]
                   ELSE m
    IN [cleared EXCEPT !.isMonitoring = FALSE,
                       !.emitted = Append(@, logToTerminal("Stopped MCP server health monitoring", "info"))]

\* handleServerDown without the "stopped monitoring" guard.
handleServerDown_NoGuard(m) ==
    stopHealthMonitoring(
        [m EXCEPT !.emitted = @ \o <<DownLine, Step4Pending>>,
                  !.downReports = @ + 1])

handleServerDown(m) ==
    IF ~m.isMonitoring
    THEN m
    ELSE stopHealthMonitoring(
            [m EXCEPT !.emitted = @ \o <<DownLine, Step4Pending>>,
                      !.downReports = @ + 1])

\* checkServerHealth() up to its return: the request is written, or write/end
\* throws and the catch block reports the server down.
checkServerHealth(m, sendOk) ==
    IF sendOk THEN m ELSE handleServerDown(m)

\* A request in flight, tagged with the session that was current when it was issued.
NewProbe(m) ==
    [sess |-> m.session, stage |-> "sent"]

Sent(m, sendOk) ==
    IF sendOk THEN probes (+) SetToBag({NewProbe(m)}) ELSE probes

SetMon(m) ==
    /\ isMonitoring' = m.isMonitoring
    /\ healthCheckInterval' = m.healthCheckInterval
    /\ armed' = m.armed
    /\ session' = m.session
    /\ downReports' = m.downReports
    /\ out' = m.emitted
    /\ stepStatus' = ApplySteps(stepStatus, m.emitted)

\* The step leaves the panel as it is and sends nothing to a terminal.
NoTerminal == terminal' = << >> /\ UNCHANGED panelVars

Did(op) == last' = op /\ NoTerminal /\ UNCHANGED <<calls, uiVars, toolsShown, fsVars>>

InFlight == BagCardinality(probes)

\* ------------------------------------------------------------ the callers
\* 'startMCP' handler / runQuickStart: step 4 is set 'done', then the handler
\* sleeps 7 s before it calls startHealthMonitoring().
markStep4Done ==
    /\ pendingStarts < MaxPendingStarts
    /\ pendingStarts' = pendingStarts + 1
    /\ out' = <<updateStepStatus(4, "done"),
                logToTerminal("Waiting for MCP server to fully initialize...", "info")>>
    /\ stepStatus' = ApplySteps(stepStatus, out')
    /\ Did("markStep4Done")
    /\ UNCHANGED <<isMonitoring, healthCheckInterval, armed, session, probes,
                   server, downReports>>

\* startHealthMonitoring() that only arms the timer: the first probe is left to
\* the first tick.
startHealthMonitoring_TimerOnly ==
    /\ pendingStarts > 0
    /\ pendingStarts' = pendingStarts - 1
    /\ Did("startHealthMonitoring")
    /\ UNCHANGED <<server, probes>>
    /\ IF isMonitoring
       THEN /\ out' = << >>
            /\ UNCHANGED <<isMonitoring, healthCheckInterval, armed, session,
                           stepStatus, downReports>>
       ELSE /\ session < MaxSessions
            /\ SetMon([Mon EXCEPT !.isMonitoring = TRUE,
                                  !.session = @ + 1,
                                  !.downReports = 0,
                                  !.healthCheckInterval = session + 1,
                                  !.armed = @ \cup {session + 1},
                                  !.emitted = <<logToTerminal("Starting MCP server health monitoring...", "info")>>])

startHealthMonitoring ==
    /\ pendingStarts > 0
    /\ pendingStarts' = pendingStarts - 1
    /\ Did("startHealthMonitoring")
    /\ UNCHANGED server
    /\ IF isMonitoring
       THEN /\ out' = << >>
            /\ UNCHANGED <<isMonitoring, healthCheckInterval, armed, session,
                           probes, stepStatus, downReports>>
       ELSE /\ session < MaxSessions
            /\ \E sendOk \in BOOLEAN :
                 /\ sendOk => InFlight < MaxInFlight
                 /\ LET m1 == [Mon EXCEPT !.isMonitoring = TRUE,
                                          !.session = @ + 1,
                                          !.downReports = 0,
                                          !.emitted = <<logToTerminal("Starting MCP server health monitoring...", "info")>>]
                        m2 == checkServerHealth(m1, sendOk)
                        m3 == [m2 EXCEPT !.healthCheckInterval = m1.session,
                                         !.armed = @ \cup {m1.session}]
                    IN /\ SetMon(m3)
                       /\ probes' = Sent(m1, sendOk)

\* The setInterval callback of any armed timer.
healthCheckTick ==
    /\ armed # {}
    /\ \E sendOk \in BOOLEAN :
         /\ sendOk => InFlight < MaxInFlight
         /\ SetMon(checkServerHealth(Mon, sendOk))
         /\ probes' = Sent(Mon, sendOk)
    /\ Did("healthCheckTick")
    /\ UNCHANGED <<pendingStarts, server>>

deactivate ==
    /\ SetMon(stopHealthMonitoring(Mon))
    /\ Did("deactivate")
    /\ UNCHANGED <<probes, pendingStarts, server>>

\* ------------------------------------------------- health-probe callbacks
Move(p, q) == probes' = (probes (-) SetToBag({p})) (+) SetToBag({q})
Drop(p) == probes' = probes (-) SetToBag({p})

\* http.request callback: the response headers arrived.
ProbeResponse(p) ==
    /\ p.stage = "sent" /\ server = "up"
    /\ Move(p, [p EXCEPT !.stage = "responded"])
    /\ out' = << >>
    /\ Did("ProbeResponse")
    /\ UNCHANGED <<isMonitoring, healthCheckInterval, armed, session,
                   pendingStarts, server, stepStatus, downReports>>

\* res.on('end') that treats a body it cannot parse as a dead server.
ProbeEnd_Parses(p, body) ==
    /\ p.stage = "responded" /\ server = "up"
    /\ Drop(p)
    /\ SetMon(IF body = "notjson" THEN handleServerDown(Mon) ELSE Mon)
    /\ Did(IF body = "json" THEN "ProbeEnd" ELSE "ProbeEndUnparsable")
    /\ UNCHANGED <<pendingStarts, server>>

\* res.on('end') that marks the monitor as running again.
ProbeEnd_Resumes(p, body) ==
    /\ p.stage = "responded" /\ server = "up"
    /\ Drop(p)
    /\ SetMon([Mon EXCEPT !.isMonitoring = TRUE])
    /\ Did(IF body = "json" THEN "ProbeEnd" ELSE "ProbeEndUnparsable")
    /\ UNCHANGED <<pendingStarts, server>>

\* res.on('end'): the server responded, it is alive. The accumulated body is
\* not looked at.
ProbeEnd(p, body) ==
    /\ p.stage = "responded" /\ server = "up"
    /\ Drop(p)
    /\ out' = << >>
    /\ Did(IF body = "json" THEN "ProbeEnd" ELSE "ProbeEndUnparsable")
    /\ UNCHANGED <<isMonitoring, healthCheckInterval, armed, session,
                   pendingStarts, server, stepStatus, downReports>>

\* res.on('error')
ProbeResError(p) ==
    /\ p.stage = "responded" /\ server = "down"
    /\ Drop(p)
    /\ SetMon(handleServerDown(Mon))
    /\ Did("ProbeResError")
    /\ UNCHANGED <<pendingStarts, server>>

\* req.on('error'): the connection is refused, or the socket fails later.
ProbeReqError(p) ==
    /\ p.stage \in {"sent", "responded"} /\ server = "down"
    /\ Drop(p)
    /\ SetMon(handleServerDown(Mon))
    /\ Did("ProbeReqError")
    /\ UNCHANGED <<pendingStarts, server>>

\* A request on which no timeout is set: the event never comes.
ProbeTimeout_NotSet(p) == FALSE

\* req.on('timeout'): req.destroy(), then the server is reported down.
ProbeTimeout(p) ==
    /\ p.stage \in {"sent", "responded"} /\ server = "hung"
    /\ Move(p, [p EXCEPT !.stage = "destroyed"])
    /\ SetMon(handleServerDown(Mon))
    /\ Did("ProbeTimeout")
    /\ UNCHANGED <<pendingStarts, server>>

\* The 'error' event (socket hang up) that req.destroy() raises on the request,
\* or on the response when one had arrived: both handlers report the server down.
ProbeDestroyedError(p) ==
    /\ p.stage = "destroyed"
    /\ Drop(p)
    /\ SetMon(handleServerDown(Mon))
    /\ Did("ProbeDestroyedError")
    /\ UNCHANGED <<pendingStarts, server>>

ProbeFailure ==
    \E p \in BagToSet(probes) :
        ProbeResError(p) \/ ProbeReqError(p) \/ ProbeTimeout(p) \/ ProbeDestroyedError(p)

ProbeAnswered ==
    \E p \in BagToSet(probes) :
        ProbeResponse(p) \/ \E body \in BodyKinds : ProbeEnd(p, body)

\* The server process changes state (it is external to the extension).
ServerTurns ==
    /\ \E s \in ServerModes \ {server} : server' = s
    /\ out' = << >>
    /\ Did("ServerTurns")
    /\ UNCHANGED <<isMonitoring, healthCheckInterval, armed, session, probes,
                   pendingStarts, stepStatus, downReports>>

\* ------------------------------------------- fetchTools / executeTool
CallIds == 1..MaxCalls
Commands == {"fetchMcpTools", "quickStart", "runMcpTool"}
ToolPool == {"add-frontend", "add-postgres", "null"}     \* "null": a null element
\* tools/list results: every tool is listed once.
ToolLists ==
    {t \in UNION {[1..n -> ToolPool] : n \in 0..MaxTools} :
        \A i, j \in 1..Len(t) : i # j => t[i] # t[j]}

\* What JSON.parse(data.trim()) and response?.result?.tools make of a tools/list body.
FetchBodies ==
    {[kind |-> "notjson"], [kind |-> "noresult"], [kind |-> "text"]}
        \cup {[kind |-> "list", tools |-> t] : t \in ToolLists}
\* tools/call bodies: not JSON, the JSON value null, {error:{message:"boom"}},
\* {result, error:null}, {result}, {}.
ExecBodies == {"notjson", "null", "error", "errorNull", "result", "empty"}

IdleCall == [handler |-> "none", stage |-> "idle", promise |-> "none",
             pubList |-> FALSE, pubErr |-> FALSE, handlerEnd |-> "none",
             reason |-> "none"]

updateTools(tools) == [command |-> "updateTools", tools |-> tools]
updateToolsError(error) == [command |-> "updateTools", tools |-> << >>, error |-> error]

\* A call being worked on: its record and what the running callback has emitted.
Run(c) == [call |-> calls[c], emitted |-> << >>]
Log(r, message, type) == [r EXCEPT !.emitted = Append(@, logToTerminal(message, type))]
PublishList(r, tools) ==
    [r EXCEPT !.emitted = Append(@, updateTools(tools)), !.call.pubList = TRUE]
PublishError(r, error) ==
    [r EXCEPT !.emitted = Append(@, updateToolsError(error)), !.call.pubErr = TRUE]

\* The message handler after `await`: 'quickStart' wraps fetchTools() in
\* try/catch, 'fetchMcpTools' and 'runMcpTool' await with no catch, so a
\* rejection leaves the async handler as an unhandled rejection.
HandlerResumes(r, outcome) ==
    IF r.call.handler = "quickStart"
    THEN [Log(r, IF outcome = "resolved" THEN "Tools loaded successfully!"
                 ELSE "Could not fetch tools yet. Click Refresh Tools button once server is ready.",
              IF outcome = "resolved" THEN "success" ELSE "info")
            EXCEPT !.call.handlerEnd = "returned"]
    ELSE [r EXCEPT !.call.handlerEnd =
                      IF outcome = "resolved" THEN "returned" ELSE "unhandled"]

\* resolve() / reject(): only the first settles the promise.
Settle(r, outcome) ==
    IF r.call.promise = "pending"
    THEN HandlerResumes([r EXCEPT !.call.promise = outcome], outcome)
    ELSE r

\* reject(new Error(message)) of executeTool: the message the promise rejects with.
Reject(r, message) ==
    IF r.call.promise = "pending"
    THEN Settle([r EXCEPT !.call.reason = message], "rejected")
    ELSE r

\* tools.slice(0, 3).map(t => t.name) throws on a null element and on a string.
NamesThrow(body) ==
    \/ body.kind = "text"
    \/ body.kind = "list" /\ \E i \in 1..Len(body.tools) : i <= 3 /\ body.tools[i] = "null"
ToolsOf(body) == IF body.kind = "list" THEN body.tools ELSE << >>

\* fetchTools() up to the promise it returns.
fetchTools(r, sendOk) ==
    LET r1 == Log(Log(Log(r, "Fetching tools from MCP server...", "info"),
                      "Connecting to 127.0.0.1:mcpPort/mcp", "info"),
                  "Sending request", "info")
        r2 == [r1 EXCEPT !.call.promise = "pending", !.call.handlerEnd = "awaiting"]
    IN IF sendOk
       THEN [Log(r2, "Request sent, waiting for response...", "info")
                EXCEPT !.call.stage = "sent"]
       ELSE Settle([Log(r2, "Failed to send request", "error")
                       EXCEPT !.call.stage = "closed"], "rejected")

\* executeTool() up to the promise it returns: write/end are outside any try,
\* so a throw rejects the promise from inside the executor.
executeTool(r, sendOk) ==
    LET r1 == [Log(r, "Running tool", "command")
                 EXCEPT !.call.promise = "pending", !.call.handlerEnd = "awaiting"]
    IN IF sendOk
       THEN [r1 EXCEPT !.call.stage = "sent"]
       ELSE Reject([r1 EXCEPT !.call.stage = "closed"], "write failed")

\* wizard.js, the 'updateTools' case of the message listener: updateTools(tools,
\* error) shows exactly one of the error banner, the empty note and the list,
\* and renders a list that is not empty. The tools here carry no inputSchema,
\* so no parameter input is rendered for them.
ToolsCard == [shown |-> toolsShown, tools |-> availableTools, inputs |-> inputs]

\* updateTools() that renders a list only while no list is on display.
showTools_KeepsFirst(card, message) ==
    IF "error" \in DOMAIN message THEN [card EXCEPT !.shown = "error"]
    ELSE IF Len(message.tools) = 0 THEN [card EXCEPT !.shown = "empty"]
    ELSE IF card.tools # << >> THEN [card EXCEPT !.shown = "list"]
    ELSE [shown |-> "list", tools |-> message.tools,
          inputs |-> [i \in 1..Len(message.tools) |-> << >>]]

showTools(card, message) ==
    IF "error" \in DOMAIN message THEN [card EXCEPT !.shown = "error"]
    ELSE IF Len(message.tools) = 0 THEN [card EXCEPT !.shown = "empty"]
    ELSE [shown |-> "list", tools |-> message.tools,
          inputs |-> [i \in 1..Len(message.tools) |-> << >>]]

\* The tools card after the webview has handled the updateTools messages of
\* `msgs`, which it receives in the order they were posted.
RECURSIVE ApplyTools(_, _)
ApplyTools(card, msgs) ==
    IF msgs = << >> THEN card
    ELSE ApplyTools(IF Head(msgs).command = "updateTools"
                    THEN showTools(card, Head(msgs))
                    ELSE card,
                    Tail(msgs))

SetCall(c, r) ==
    /\ calls' = [calls EXCEPT ![c] = r.call]
    /\ out' = r.emitted
    /\ stepStatus' = ApplySteps(stepStatus, r.emitted)
    /\ LET card == ApplyTools(ToolsCard, r.emitted)
       IN /\ toolsShown' = card.shown
          /\ availableTools' = card.tools
          /\ inputs' = card.inputs
    /\ UNCHANGED <<isMonitoring, healthCheckInterval, armed, session, probes,
                   pendingStarts, server, downReports>>

Called(op) == last' = op /\ NoTerminal /\ UNCHANGED <<executedTools, posted, alerts, fsVars>>

\* The command switch of one registered handler, up to its first await.
HandleMessage(r, cmd, sendOk) ==
    LET r1 == [r EXCEPT !.call.handler = cmd]
    IN IF cmd = "runMcpTool" THEN executeTool(r1, sendOk) ELSE fetchTools(r1, sendOk)

\* webview.onDidReceiveMessage: the command switch, for the commands that
\* reach McpService ('quickStart' from the point runQuickStart has returned).
onDidReceiveMessage ==
    \E c \in CallIds, cmd \in Commands, sendOk \in BOOLEAN :
        /\ calls[c].stage = "idle"
        /\ \A d \in CallIds : d < c => calls[d].stage # "idle"
        /\ SetCall(c, HandleMessage(Run(c), cmd, sendOk))
        /\ Called(cmd)

IsFetch(c) == calls[c].handler \in {"fetchMcpTools", "quickStart"}
IsExec(c) == calls[c].handler = "runMcpTool"

FetchResponse(c) ==
    /\ IsFetch(c) /\ calls[c].stage = "sent" /\ server = "up"
    /\ SetCall(c, [Log(Log(Run(c), "Connected! Status", "success"), "Received bytes...", "info")
                     EXCEPT !.call.stage = "responded"])
    /\ Called("FetchResponse")

\* res.on('end') that posts the list before it logs the tool names.
FetchEnd_PublishFirst(c, body) ==
    /\ IsFetch(c) /\ calls[c].stage = "responded" /\ server = "up"
    /\ LET r0 == [Log(Run(c), "Response complete", "success") EXCEPT !.call.stage = "closed"]
           r1 == IF body.kind = "notjson" THEN r0 ELSE PublishList(r0, ToolsOf(body))
       IN SetCall(c, IF body.kind = "notjson" \/ NamesThrow(body)
                     THEN Settle(PublishError(Log(r1, "Failed to parse response", "error"),
                                              "error"), "rejected")
                     ELSE Settle(r1, "resolved"))
    /\ Called("FetchEnd")

\* res.on('end') whose catch block logs and rejects without posting updateTools.
FetchEnd_Swallows(c, body) ==
    /\ IsFetch(c) /\ calls[c].stage = "responded" /\ server = "up"
    /\ LET r0 == [Log(Run(c), "Response complete", "success") EXCEPT !.call.stage = "closed"]
       IN SetCall(c, IF body.kind = "notjson" \/ NamesThrow(body)
                     THEN Settle(Log(r0, "Failed to parse response", "error"), "rejected")
                     ELSE Settle(PublishList(r0, ToolsOf(body)), "resolved"))
    /\ Called("FetchEnd")

\* res.on('end') of fetchTools: parse, log, post updateTools, resolve; whatever
\* the try block throws is posted as an error and rejects.
FetchEnd(c, body) ==
    /\ IsFetch(c) /\ calls[c].stage = "responded" /\ server = "up"
    /\ LET r0 == [Log(Run(c), "Response complete", "success") EXCEPT !.call.stage = "closed"]
       IN SetCall(c, IF body.kind = "notjson" \/ NamesThrow(body)
                     THEN Settle(PublishError(Log(IF NamesThrow(body)
                                                  THEN Log(r0, "Found tools", "success")
                                                  ELSE r0,
                                                  "Failed to parse response", "error"),
                                              "error"), "rejected")
                     ELSE Settle(PublishList(IF Len(ToolsOf(body)) > 0
                                             THEN Log(Log(r0, "Found tools", "success"),
                                                      "Tools: names", "info")
                                             ELSE Log(r0, "No tools found in response", "info"),
                                             ToolsOf(body)), "resolved"))
    /\ Called("FetchEnd")

FetchResError(c) ==
    /\ IsFetch(c) /\ calls[c].stage = "responded" /\ server = "down"
    /\ SetCall(c, Settle(PublishError(Log([Run(c) EXCEPT !.call.stage = "closed"],
                                          "Response stream error", "error"),
                                      "error.message"), "rejected"))
    /\ Called("FetchResError")

FetchReqError(c) ==
    /\ IsFetch(c) /\ calls[c].stage \in {"sent", "responded"} /\ server = "down"
    /\ SetCall(c, Settle(PublishError(Log(Log([Run(c) EXCEPT !.call.stage = "closed"],
                                              "Request error", "error"),
                                          "Make sure MCP server is running at 127.0.0.1:31338", "info"),
                                      "error.name: error.message"), "rejected"))
    /\ Called("FetchReqError")

\* req.on('timeout') after the 10 s set by req.setTimeout(10000).
FetchTimeout(c) ==
    /\ IsFetch(c) /\ calls[c].stage \in {"sent", "responded"} /\ server = "hung"
    /\ SetCall(c, Settle(PublishError(Log([Run(c) EXCEPT !.call.stage =
                                               IF calls[c].stage = "sent" THEN "destroyed" ELSE "aborted"],
                                          "Request timed out", "error"),
                                      "Request timed out"), "rejected"))
    /\ Called("FetchTimeout")

\* The 'error' event req.destroy() raises: on the request before a response,
\* on the response after one.
FetchDestroyedError(c) ==
    /\ IsFetch(c) /\ calls[c].stage \in {"destroyed", "aborted"}
    /\ LET r0 == [Run(c) EXCEPT !.call.stage = "closed"]
       IN SetCall(c, IF calls[c].stage = "destroyed"
                     THEN Settle(PublishError(Log(Log(r0, "Request error", "error"),
                                                  "Make sure MCP server is running at 127.0.0.1:31338", "info"),
                                              "error.name: error.message"), "rejected")
                     ELSE Settle(PublishError(Log(r0, "Response stream error", "error"),
                                              "error.message"), "rejected"))
    /\ Called("FetchDestroyedError")

ExecResponse(c) ==
    /\ IsExec(c) /\ calls[c].stage = "sent" /\ server = "up"
    /\ SetCall(c, [Run(c) EXCEPT !.call.stage = "responded"])
    /\ Called("ExecResponse")

\* res.on('end') that logs the success line before it looks at response.error.
ExecEnd_SuccessFirst(c, body) ==
    /\ IsExec(c) /\ calls[c].stage = "responded" /\ server = "up"
    /\ LET r0 == [Run(c) EXCEPT !.call.stage = "closed"]
           r1 == Log(r0, "Tool executed successfully!", "success")
       IN SetCall(c, CASE body \in {"notjson", "null"} ->
                            Reject(Log(r0, "Failed to parse tool response", "error"), "parse error")
                       [] body = "error" ->
                            Reject(Log(r1, "Tool execution failed: boom", "error"), "boom")
                       [] OTHER -> Settle(r1, "resolved"))
    /\ Called("ExecEnd")

\* res.on('end') of executeTool: `if (response.error)` is a truthiness test, and
\* reading .error of null throws into the catch.
ExecEnd(c, body) ==
    /\ IsExec(c) /\ calls[c].stage = "responded" /\ server = "up"
    /\ LET r0 == [Run(c) EXCEPT !.call.stage = "closed"]
       IN SetCall(c, CASE body \in {"notjson", "null"} ->
                            Reject(Log(r0, "Failed to parse tool response", "error"), "parse error")
                       [] body = "error" ->
                            Reject(Log(r0, "Tool execution failed: boom", "error"), "boom")
                       [] body \in {"result", "errorNull"} ->
                            Settle(Log(Log(r0, "Tool executed successfully!", "success"),
                                       "Result", "info"), "resolved")
                       [] OTHER ->
                            Settle(Log(r0, "Tool executed successfully!", "success"), "resolved"))
    /\ Called("ExecEnd")

\* req.on('error') written like the one of fetchTools: it also posts updateTools.
ExecReqError_PostsTools(c) ==
    /\ IsExec(c) /\ calls[c].stage \in {"sent", "responded"} /\ server = "down"
    /\ SetCall(c, Reject(PublishError(Log([Run(c) EXCEPT !.call.stage = "closed"],
                                          "Tool execution error", "error"),
                                      "error.name: error.message"), "error.message"))
    /\ Called("ExecReqError")

ExecReqError(c) ==
    /\ IsExec(c) /\ calls[c].stage \in {"sent", "responded"} /\ server = "down"
    /\ SetCall(c, Reject(Log([Run(c) EXCEPT !.call.stage = "closed"],
                             "Tool execution error", "error"), "error.message"))
    /\ Called("ExecReqError")

\* The response stream breaks: executeTool listens for no 'error' on the
\* response, so nothing runs and the promise stays as it is.
ExecResAborted(c) ==
    /\ IsExec(c) /\ calls[c].stage = "responded" /\ server = "down"
    /\ SetCall(c, [Run(c) EXCEPT !.call.stage = "closed"])
    /\ Called("ExecResAborted")

FetchEvent ==
    \E c \in CallIds :
        \/ FetchResponse(c)
        \/ \E body \in FetchBodies : FetchEnd(c, body)
        \/ FetchResError(c)
        \/ FetchReqError(c)
        \/ FetchTimeout(c)
        \/ FetchDestroyedError(c)

ExecEvent ==
    \E c \in CallIds :
        \/ ExecResponse(c)
        \/ \E body \in ExecBodies : ExecEnd(c, body)
        \/ ExecReqError(c)
        \/ ExecResAborted(c)

\* ------------------------------------- the panel and its message handlers
\* The command 'bluetext.setupWizard': createOrShow() reveals the panel or
\* creates a new one, and a handler is registered on the webview it returns.
setupWizard ==
    /\ listeners < MaxListeners
    /\ panel' = TRUE
    /\ listeners' = IF panel THEN listeners + 1 ELSE 1
    /\ out' = <<logToTerminal("Bluetext Setup Wizard initialized", "info"),
                logToTerminal("Click any setup button to begin", "info")>>
    /\ last' = "setupWizard"
    /\ terminal' = << >>
    /\ UNCHANGED <<monVars_noLast, calls, uiVars, toolsShown, fsVars>>

\* The user closes the panel: onDidDispose clears WizardPanel.panel, and the
\* handlers of the disposed webview receive nothing any more.
onDidDispose ==
    /\ panel
    /\ panel' = FALSE
    /\ listeners' = 0
    /\ out' = << >>
    /\ last' = "onDidDispose"
    /\ terminal' = << >>
    /\ UNCHANGED <<monVars_noLast, calls, uiVars, toolsShown, fsVars>>

FreeCalls(cs) == {c \in CallIds : cs[c].stage = "idle"}

\* One message of the webview is given to the registered handlers in the order
\* they were registered; each makes its own call.
RECURSIVE Dispatch(_, _, _, _)
Dispatch(d, cmd, oks, k) ==
    IF k > Len(oks) THEN d
    ELSE LET c == CHOOSE f \in FreeCalls(d.calls) : \A g \in FreeCalls(d.calls) : f <= g
             r == HandleMessage([call |-> d.calls[c], emitted |-> d.emitted], cmd, oks[k])
         IN Dispatch([calls |-> [d.calls EXCEPT ![c] = r.call], emitted |-> r.emitted],
                     cmd, oks, k + 1)

\* vscode.postMessage(message) in the webview, for the commands that call McpService.
postMessage ==
    \E cmd \in {"fetchMcpTools", "runMcpTool"}, oks \in [1..listeners -> BOOLEAN] :
        /\ panel
        /\ Cardinality(FreeCalls(calls)) >= listeners
        /\ LET d == Dispatch([calls |-> calls, emitted |-> << >>], cmd, oks, 1)
               card == ApplyTools(ToolsCard, d.emitted)
           IN /\ calls' = d.calls
              /\ out' = d.emitted
              /\ stepStatus' = ApplySteps(stepStatus, d.emitted)
              /\ toolsShown' = card.shown
              /\ availableTools' = card.tools
              /\ inputs' = card.inputs
        /\ last' = cmd
        /\ NoTerminal
        /\ UNCHANGED <<isMonitoring, healthCheckInterval, armed, session, probes,
                       pendingStarts, server, downReports, executedTools, posted,
                       alerts, fsVars>>

\* ------------------------------------------------ wizard.js: running a tool
\* JavaScript values, as a type tag and a canonical text.
Undefined == [t |-> "undefined", v |-> ""]
Bool(b) == [t |-> "boolean", v |-> IF b THEN "true" ELSE "false"]
Num(text) == [t |-> "number", v |-> text]
Str(text) == [t |-> "string", v |-> text]
Arr(text) == [t |-> "array", v |-> text]
Obj(text) == [t |-> "object", v |-> text]
NoParams == [k \in {} |-> Undefined]     \* the object {}

ParamTypes == {"boolean", "integer", "number", "array", "object", "string"}
DefaultsOf(type) ==
    {Undefined} \cup
    CASE type = "boolean" -> {Bool(TRUE), Bool(FALSE)}
      [] type = "integer" -> {Num("7")}
      [] type = "number" -> {Num("2.5")}
      [] type = "array" -> {Arr("[1]")}
      [] type = "object" -> {Obj("{}")}
      [] OTHER -> {Str("abc"), Str("a<b"), Str("a\"b")}
ParamDecls == UNION {[type : {ty}, default : DefaultsOf(ty)] : ty \in ParamTypes}
Schemas == UNION {[1..n -> ParamDecls] : n \in 0..MaxParams}

\* What the user can leave in an input of each kind (an <input type="number">
\* yields "" unless its content is a number).
NumberTexts == {"", "2.5"}
JsonTexts == {"", " ", "[1]", "not json"}
StringTexts == {"", "xyz"}
TextsOf(type) ==
    CASE type \in {"integer", "number"} -> NumberTexts
      [] type \in {"array", "object"} -> JsonTexts
      [] OTHER -> StringTexts

\* updateTools(): data-type is the declared type, or "string" for any other.
DataType(type) == IF type \in ParamTypes THEN type ELSE "string"

\* String(value) / JSON.stringify(value, null, 2) as updateTools() writes a default.
StringOf(value) == value.v
Stringify(value) == IF value = Arr("[1]") THEN "[ 1 ]" ELSE value.v

\* escapeHtml(): textContent in, innerHTML out, which escapes & < > and leaves
\* quotes as they are.
escapeHtml(text) == IF text = "a<b" THEN "a&lt;b" ELSE text

\* What the HTML parser makes of value="..." and of the content of a textarea
\* once toolsList.innerHTML is assigned: character references are decoded, and
\* a double-quoted attribute value ends at the first double quote.
AttrValue(html) ==
    CASE html = "a&lt;b" -> "a<b"
      [] html = "a\"b" -> "a"
      [] OTHER -> html
ElementText(html) == IF html = "a&lt;b" THEN "a<b" ELSE html

\* updateTools(): the input element rendered for a parameter, default filled in.
RenderInput(decl) ==
    [type |-> DataType(decl.type),
     checked |-> decl.default = Bool(TRUE),
     value |-> IF decl.default = Undefined \/ DataType(decl.type) = "boolean" THEN ""
               ELSE IF DataType(decl.type) \in {"array", "object"}
                    THEN ElementText(escapeHtml(Stringify(decl.default)))
               ELSE IF DataType(decl.type) \in {"number", "integer"}
                    THEN AttrValue(StringOf(decl.default))
               ELSE AttrValue(escapeHtml(StringOf(decl.default)))]

\* String.prototype.trim()
Trim(text) ==
    CASE text = " " -> ""
      [] text = "include:\n  - repo: gh:bluetext-io/bluetext\n" ->
            "include:\n  - repo: gh:bluetext-io/bluetext"
      [] text = "tools: []\n" -> "tools: []"
      [] OTHER -> text
parseInt(text) == IF text = "2.5" THEN Num("2") ELSE Num(text)
parseFloat(text) == Num(text)
JsonThrows(text) == text \in {"", " ", "not json", "abc", "xyz"}
JsonParse(text) ==
    CASE text \in {"[1]", "[ 1 ]"} -> Arr("[1]")
      [] text = "{}" -> Obj("{}")
      [] OTHER -> Num(text)

Put(params, k, value) ==
    [x \in DOMAIN params \cup {k} |-> IF x = k THEN value ELSE params[x]]

\* The forEach body with `if (value)` in place of `if (hasValue)`: a false
\* checkbox state is dropped.
CollectInput_DropsFalsy(acc, k, input) ==
    CASE input.type = "boolean" ->
            IF input.checked THEN [acc EXCEPT !.params = Put(@, k, Bool(TRUE))] ELSE acc
      [] input.type \in {"number", "integer"} ->
            IF input.value # ""
            THEN [acc EXCEPT !.params = Put(@, k, IF input.type = "integer"
                                                 THEN parseInt(input.value)
                                                 ELSE parseFloat(input.value))]
            ELSE acc
      [] input.type \in {"array", "object"} ->
            IF Trim(input.value) # ""
            THEN IF JsonThrows(input.value)
                 THEN [acc EXCEPT !.alerts = Append(@, k)]
                 ELSE [acc EXCEPT !.params = Put(@, k, JsonParse(input.value))]
            ELSE acc
      [] OTHER ->
            IF input.value # ""
            THEN [acc EXCEPT !.params = Put(@, k, Str(input.value))]
            ELSE acc

\* The body of inputs.forEach in collectToolParams, for input k: `return null`
\* inside it ends this callback only.
CollectInput(acc, k, input) ==
    CASE input.type = "boolean" ->
            [acc EXCEPT !.params = Put(@, k, Bool(input.checked))]
      [] input.type \in {"number", "integer"} ->
            IF input.value # ""
            THEN [acc EXCEPT !.params = Put(@, k, IF input.type = "integer"
                                                 THEN parseInt(input.value)
                                                 ELSE parseFloat(input.value))]
            ELSE acc
      [] input.type \in {"array", "object"} ->
            IF Trim(input.value) # ""
            THEN IF JsonThrows(input.value)
                 THEN [acc EXCEPT !.alerts = Append(@, k)]
                 ELSE [acc EXCEPT !.params = Put(@, k, JsonParse(input.value))]
            ELSE acc
      [] OTHER ->
            IF input.value # ""
            THEN [acc EXCEPT !.params = Put(@, k, Str(input.value))]
            ELSE acc

RECURSIVE CollectFrom(_, _, _)
CollectFrom(acc, k, ins) ==
    IF k > Len(ins) THEN acc
    ELSE CollectFrom(CollectInput(acc, k, ins[k]), k + 1, ins)

\* collectToolParams(toolIndex) for a tool that exists: defaults first, then
\* the inputs. `returns` tells a params object from null; the function's own
\* return statements all return params.
collectToolParams(schema, ins) ==
    IF Len(schema) = 0
    THEN [returns |-> "params", params |-> NoParams, alerts |-> << >>]
    ELSE CollectFrom([returns |-> "params",
                      params |-> [k \in {j \in 1..Len(schema) : schema[j].default # Undefined}
                                     |-> schema[k].default],
                      alerts |-> << >>],
                     1, ins)

UiDid(op) ==
    /\ last' = op
    /\ out' = << >>
    /\ NoTerminal
    /\ UNCHANGED <<monVars_noLast, calls, toolsShown, fsVars>>

\* The user types into a number, text or textarea input of a tool.
typeText ==
    \E i \in 1..Len(availableTools), k \in 1..MaxParams :
        /\ k <= Len(inputs[i])
        /\ inputs[i][k].type # "boolean"
        /\ \E text \in TextsOf(inputs[i][k].type) :
             /\ text # inputs[i][k].value
             /\ inputs' = [inputs EXCEPT ![i][k].value = text]
        /\ posted' = << >> /\ alerts' = << >>
        /\ UNCHANGED <<availableTools, executedTools>>
        /\ UiDid("input")

toggleCheckbox ==
    \E i \in 1..Len(availableTools), k \in 1..MaxParams :
        /\ k <= Len(inputs[i])
        /\ inputs[i][k].type = "boolean"
        /\ inputs' = [inputs EXCEPT ![i][k].checked = ~@]
        /\ posted' = << >> /\ alerts' = << >>
        /\ UNCHANGED <<availableTools, executedTools>>
        /\ UiDid("input")

\* runTool(toolIndex), with executeToolDirect(); toolIndex counts from 0.
runTool(toolIndex) ==
    /\ IF toolIndex + 1 \in 1..Len(availableTools)
       THEN LET got == collectToolParams(availableTools[toolIndex + 1], inputs[toolIndex + 1])
            IN /\ alerts' = got.alerts
               /\ IF got.returns # "null"
                  THEN /\ executedTools' = executedTools \cup {toolIndex}
                       /\ posted' = <<[command |-> "runMcpTool", toolIndex |-> toolIndex,
                                       parameters |-> got.params]>>
                  ELSE /\ posted' = << >>
                       /\ UNCHANGED executedTools
       ELSE /\ posted' = << >> /\ alerts' = << >>
            /\ UNCHANGED executedTools
    /\ UNCHANGED <<availableTools, inputs>>
    /\ UiDid("runTool")

\* ------------------------------------------------ commands.ts: the files
NoFile == [exists |-> FALSE]
File(content) == [exists |-> TRUE, content |-> content]

\* polytopeContent, and what a polytope.yml found in the workspace may hold.
polytopeContent == "include:\n  - repo: gh:bluetext-io/bluetext\n"
YmlContents ==
    {polytopeContent, "include:\n  - repo: gh:bluetext-io/bluetext", "", "tools: []\n"}
Answers == {"Yes", "No", "dismissed"}

\* The end of createPolytopeYml(): write the file, and open it unless skipPrompt.
WriteYml(r, skipPrompt, writeOk, openOk) ==
    IF writeOk
    THEN LET w == Log(Log([r EXCEPT !.yml = File(polytopeContent)],
                          "polytope.yml created successfully!", "success"),
                      "File location", "info")
         IN IF skipPrompt \/ openOk
            THEN [w EXCEPT !.returned = TRUE]
            ELSE Log(w, "Failed to create polytope.yml", "error")
    ELSE Log(r, "Failed to create polytope.yml", "error")

\* createPolytopeYml(skipPrompt) that takes skipPrompt as the consent to overwrite.
CreatePolytopeYml_SkipOverwrites(yml, workspace, skipPrompt, readOk, answer, writeOk, openOk) ==
    LET r0 == [yml |-> yml, returned |-> FALSE,
               emitted |-> <<logToTerminal("Creating polytope.yml...", "command")>>]
    IN IF ~workspace
       THEN Log(r0, "Please open a workspace folder first", "error")
       ELSE IF ~yml.exists
       THEN WriteYml(r0, skipPrompt, writeOk, openOk)
       ELSE IF readOk /\ Trim(yml.content) = Trim(polytopeContent)
       THEN [Log(r0, "polytope.yml already exists with correct configuration", "success")
               EXCEPT !.returned = TRUE]
       ELSE IF ~skipPrompt /\ answer # "Yes"
       THEN Log(Log(r0, "polytope.yml already exists", "info"),
                "Operation cancelled by user", "info")
       ELSE WriteYml(Log(r0, "polytope.yml already exists", "info"),
                     skipPrompt, writeOk, openOk)

\* createPolytopeYml(skipPrompt) on the file `yml`: readOk, writeOk and openOk
\* tell whether readFileSync, writeFileSync and openTextDocument succeed,
\* answer is what the user picks in the overwrite prompt.
CreatePolytopeYml(yml, workspace, skipPrompt, readOk, answer, writeOk, openOk) ==
    LET r0 == [yml |-> yml, returned |-> FALSE,
               emitted |-> <<logToTerminal("Creating polytope.yml...", "command")>>]
        differs == IF readOk THEN r0
                   ELSE Log(r0, "Error reading existing polytope.yml", "error")
    IN IF ~workspace
       THEN Log(r0, "Please open a workspace folder first", "error")
       ELSE IF ~yml.exists
       THEN WriteYml(r0, skipPrompt, writeOk, openOk)
       ELSE IF readOk /\ Trim(yml.content) = Trim(polytopeContent)
       THEN [Log(r0, "polytope.yml already exists with correct configuration", "success")
               EXCEPT !.returned = TRUE]
       ELSE IF skipPrompt
       THEN [Log(differs, "polytope.yml exists with different content, skipping...", "info")
               EXCEPT !.returned = TRUE]
       ELSE IF answer # "Yes"
       THEN Log(Log(differs, "polytope.yml already exists", "info"),
                "Operation cancelled by user", "info")
       ELSE WriteYml(Log(differs, "polytope.yml already exists", "info"),
                     skipPrompt, writeOk, openOk)

FsDid(op) ==
    /\ last' = op
    /\ NoTerminal
    /\ UNCHANGED <<monVars_noLast, calls, uiVars, toolsShown, workspaceFolder>>

\* The command 'bluetext.createPolytopeYml' / the wizard's step 2 (no argument),
\* and the call runQuickStart makes (skipPrompt = true).
createPolytopeYml ==
    \E skipPrompt, readOk, writeOk, openOk \in BOOLEAN, answer \in Answers :
        LET r == CreatePolytopeYml(polytopeYml, workspaceFolder, skipPrompt,
                                   readOk, answer, writeOk, openOk)
        IN /\ polytopeYml' = r.yml
           /\ returned' = r.returned
           /\ out' = r.emitted
           /\ UNCHANGED clineSettings
           /\ FsDid("createPolytopeYml")

\* JSON values as the settings file can hold them and as configureCline() holds
\* them in memory. mcpServers: absent, null, a number, an array or an object
\* with or without another server `x`, each with its property `polytope`
\* (undefined, an entry someone else wrote, or the entry configureCline writes).
PolytopeEntries == {"undefined", "old", "new"}
ServersInMemory ==
    {[kind |-> "undefined"], [kind |-> "null"], [kind |-> "number"]}
        \cup [kind : {"array"}, polytope : PolytopeEntries]
        \cup [kind : {"object"}, x : BOOLEAN, polytope : PolytopeEntries]
\* An array read from JSON has elements only, no property `polytope`.
ServersInJson == {sv \in ServersInMemory : sv.kind = "array" => sv.polytope = "undefined"}
ConfigsInJson ==
    {[kind |-> "null"], [kind |-> "number"],
     [kind |-> "array", servers |-> [kind |-> "undefined"]]}
        \cup [kind : {"object"}, other : BOOLEAN, servers : ServersInJson]

RawTexts == {"", " ", "not json"}
SettingsFiles ==
    {NoFile} \cup {[exists |-> TRUE, json |-> FALSE, text |-> t] : t \in RawTexts}
        \cup [exists : {TRUE}, json : {TRUE}, value : ConfigsInJson,
              layout : {"compact", "indented"}]

\* JSON.stringify(config, null, 2): the properties of an array that are not
\* elements are not written.
StringifyServers(sv) ==
    IF sv.kind = "array" THEN [sv EXCEPT !.polytope = "undefined"] ELSE sv
StringifyConfig(config) ==
    [exists |-> TRUE, json |-> TRUE, layout |-> "indented",
     value |-> IF config.kind = "array"
               THEN [config EXCEPT !.servers = [kind |-> "undefined"]]
               ELSE IF config.kind = "object"
               THEN [config EXCEPT !.servers = StringifyServers(@)]
               ELSE config]

\* let config = { mcpServers: {} }
NewConfig == [kind |-> "object", other |-> FALSE,
              servers |-> [kind |-> "object", x |-> FALSE, polytope |-> "undefined"]]

\* The config configureCline() starts from: the file's content when it is
\* non-blank and parses, else the new config; with the lines it logs.
ReadConfig(r, file, readOk) ==
    IF ~file.exists
    THEN Log(r, "Creating new Cline settings file...", "info")
    ELSE LET r1 == Log(r, "Reading existing Cline settings...", "info")
         IN IF ~readOk
            THEN Log(r1, "Existing file has invalid JSON, creating new config...", "info")
            ELSE IF file.json
            THEN [r1 EXCEPT !.config = file.value]
            ELSE IF Trim(file.text) = ""
            THEN Log(r1, "Existing file is empty, creating new config...", "info")
            ELSE Log(r1, "Existing file has invalid JSON, creating new config...", "info")

\* config.mcpServers = config.mcpServers || {}; config.mcpServers.polytope = {...}
\* throws on null and, the module being strict code, on a number.
SetPolytopeThrows(config) ==
    \/ config.kind \in {"null", "number"}
    \/ config.servers.kind = "number"
\* config.mcpServers = { polytope: {...} }: the other servers are dropped.
SetPolytope_ReplacesServers(config) ==
    [config EXCEPT !.servers = [kind |-> "object", x |-> FALSE, polytope |-> "new"]]

SetPolytope(config) ==
    LET servers == IF config.servers.kind \in {"undefined", "null"}
                   THEN [kind |-> "object", x |-> FALSE, polytope |-> "undefined"]
                   ELSE config.servers
    IN [config EXCEPT !.servers = [servers EXCEPT !.polytope = "new"]]

ClineSuccess == logToTerminal("Cline MCP settings configured successfully!", "success")
ClineFailure == logToTerminal("Failed to configure Cline", "error")

\* configureCline() on the settings file: mkdir is "exists", "created" or
\* "fails" for the settings directory, readOk and writeOk tell whether
\* readFileSync and writeFileSync succeed.
ConfigureCline(file, mkdir, readOk, writeOk) ==
    LET r0 == [file |-> file, config |-> NewConfig,
               emitted |-> <<logToTerminal("Configuring Cline MCP settings...", "command"),
                             logToTerminal("Settings path", "info")>>]
        r1 == IF mkdir = "exists" THEN r0 ELSE Log(r0, "Creating settings directory...", "info")
        r2 == ReadConfig(r1, file, readOk)
    IN IF mkdir = "fails" THEN [r1 EXCEPT !.emitted = Append(@, ClineFailure)]
       ELSE IF SetPolytopeThrows(r2.config) THEN [r2 EXCEPT !.emitted = Append(@, ClineFailure)]
       ELSE LET r3 == Log([r2 EXCEPT !.config = SetPolytope(@)],
                          "Configuring polytope server at http://localhost:mcpPort/mcp", "info")
            IN IF writeOk
               THEN [r3 EXCEPT !.file = StringifyConfig(r3.config),
                               !.emitted = Append(@, ClineSuccess)]
               ELSE [r3 EXCEPT !.emitted = Append(@, ClineFailure)]

\* The command 'bluetext.configureCline' / the wizard's step 3.
configureCline ==
    \E mkdir \in {"exists", "created", "fails"}, readOk, writeOk \in BOOLEAN :
        /\ clineSettings.exists => mkdir = "exists"
        /\ LET r == ConfigureCline(clineSettings, mkdir, readOk, writeOk)
           IN /\ clineSettings' = r.file
              /\ out' = r.emitted
        /\ UNCHANGED <<polytopeYml, returned>>
        /\ FsDid("configureCline")

\* ------------------------------------------------- startMCP / runQuickStart
\* A command being run: the files as it has left them, what it has sent to
\* terminals and to the panel, how many startHealthMonitoring() calls it has
\* scheduled, and whether it has returned early.
Setup == [yml |-> polytopeYml, settings |-> clineSettings, returned |-> returned,
          terminal |-> << >>, emitted |-> << >>, starts |-> 0, stopped |-> FALSE]

sendText(r, text) == [r EXCEPT !.terminal = Append(@, text)]
Step(r, stepNumber, status) ==
    [r EXCEPT !.emitted = Append(@, updateStepStatus(stepNumber, status))]

PtRun == "pt run --mcp"
AgentChoices == {"cline", "claude"}
NoWorkspaceLine == logToTerminal("Please open a workspace folder first", "error")
Bar == logToTerminal("==================================================", "info")

\* await createPolytopeYml(skipPrompt) from inside another command.
CallCreatePolytopeYml(r, workspace, skipPrompt, readOk, answer, writeOk, openOk) ==
    LET c == CreatePolytopeYml(r.yml, workspace, skipPrompt, readOk, answer, writeOk, openOk)
    IN [r EXCEPT !.yml = c.yml, !.returned = c.returned, !.emitted = @ \o c.emitted]

\* await configureCline() from inside another command: it returns nothing and
\* catches what its body throws.
CallConfigureCline(r, mkdir, readOk, writeOk) ==
    LET c == ConfigureCline(r.settings, mkdir, readOk, writeOk)
    IN [r EXCEPT !.settings = c.file, !.emitted = @ \o c.emitted]

configureClaudeCode(r) ==
    Log(sendText(Log(Log(r, "Configuring Claude Code MCP...", "command"),
                     "Executing: claude mcp add polytope-mcp http://localhost:mcpPort/mcp", "info"),
                 "claude mcp add polytope-mcp http://localhost:mcpPort/mcp"),
        "Claude Code MCP configuration command executed. Check the terminal for results.",
        "success")

initGit(r, workspace, gitExists) ==
    LET r0 == Log(r, "Initializing Git repository...", "command")
    IN IF ~workspace THEN [r0 EXCEPT !.emitted = Append(@, NoWorkspaceLine)]
       ELSE IF gitExists THEN Log(r0, "Git repository already initialized", "info")
       ELSE Log(sendText(Log(r0, "Executing: git init", "info"), "git init"),
                "Git repository initialized!", "success")

\* startMCP(): answer is what the user picks when polytope.yml is missing,
\* writeOk and openOk are for the createPolytopeYml() that 'Yes' leads to.
startMCP(r, workspace, answer, writeOk, openOk) ==
    LET r0 == Log(r, "Starting MCP server...", "command")
        notFound == Log(r0, "polytope.yml not found", "error")
        found == IF r0.yml.exists THEN r0
                 ELSE CallCreatePolytopeYml(notFound, workspace, FALSE, TRUE,
                                            "dismissed", writeOk, openOk)
    IN IF ~workspace THEN [r0 EXCEPT !.emitted = Append(@, NoWorkspaceLine)]
       ELSE IF ~r0.yml.exists /\ answer # "Yes"
       THEN Log(notFound, "Operation cancelled", "info")
       ELSE Log(sendText(Log(Log(found, "Executing: pt run --mcp", "info"),
                             "Working directory", "info"),
                         PtRun),
                "MCP server starting... Check terminal for output. Server will run on http://localhost:31338",
                "success")

\* What follows `await startMCP()` in the 'startMCP' case and in runQuickStart:
\* step 4 'done', and startHealthMonitoring() after 7 s.
AfterStartMCP(r) ==
    [Log(Step(r, 4, "done"), "Waiting for MCP server to fully initialize...", "info")
        EXCEPT !.starts = @ + 1]

\* The 'startMCP' case of the message handler.
HandleStartMCP(r, workspace, answer, writeOk, openOk) ==
    AfterStartMCP(startMCP(Step(r, 4, "doing"), workspace, answer, writeOk, openOk))

\* runQuickStart, step 1: git init unless there is no workspace or a .git.
QuickStep1(r, workspace, gitExists) ==
    LET r1 == Log(Step(Log(Log(Log(r, Bar.message, "info"),
                               "Starting Quick Setup...", "command"),
                           Bar.message, "info"),
                       1, "doing"),
                  "Step 1/4: Initializing Git repository...", "command")
        r2 == IF ~workspace THEN r1
              ELSE IF ~gitExists THEN initGit(r1, workspace, gitExists)
              ELSE Log(r1, "Git already initialized, skipping...", "info")
    IN Step(r2, 1, "done")

\* Step 2 that goes on to step 3 after it has set step 2 to 'error'.
QuickStep2_Continues(r, workspace, readOk, writeOk) ==
    LET r1 == CallCreatePolytopeYml(
                  Log(Step(r, 2, "doing"), "Step 2/4: Creating polytope.yml...", "command"),
                  workspace, TRUE, readOk, "dismissed", writeOk, TRUE)
    IN Step(r1, 2, IF r1.returned THEN "done" ELSE "error")

\* Step 2: createPolytopeYml(true); on false, step 2 is 'error' and the run returns.
QuickStep2(r, workspace, readOk, writeOk) ==
    LET r1 == CallCreatePolytopeYml(
                  Log(Step(r, 2, "doing"), "Step 2/4: Creating polytope.yml...", "command"),
                  workspace, TRUE, readOk, "dismissed", writeOk, TRUE)
    IN IF r1.returned
       THEN Step(r1, 2, "done")
       ELSE [Step(r1, 2, "error") EXCEPT !.stopped = TRUE]

\* Step 3: the agent is configured; neither function throws or returns a
\* result, so the try block always reaches updateStepStatus(3, 'done').
QuickStep3(r, agentChoice, mkdir, readOk, writeOk) ==
    IF r.stopped THEN r
    ELSE LET r1 == Log(Step(r, 3, "doing"), "Step 3/4: Configuring agent...", "command")
             r2 == IF agentChoice = "cline"
                   THEN CallConfigureCline(r1, mkdir, readOk, writeOk)
                   ELSE configureClaudeCode(r1)
         IN Step(r2, 3, "done")

\* Step 4 and the closing lines. Step 2 has left a polytope.yml in the
\* workspace, so startMCP() does not come to its prompt.
QuickStep4(r, workspace) ==
    IF r.stopped THEN r
    ELSE LET r1 == Log(Step(r, 4, "doing"), "Step 4/4: Starting MCP server...", "command")
             r2 == AfterStartMCP(startMCP(r1, workspace, "dismissed", FALSE, FALSE))
         IN Log(Log(Log(Log(r2, Bar.message, "info"),
                        "Quick Setup Complete!", "success"),
                    Bar.message, "info"),
                "You can now start using Bluetext tools with your coding agent!", "info")

runQuickStart(r, agentChoice, workspace, gitExists, readOk, writeOk, mkdir, clineReadOk, clineWriteOk) ==
    QuickStep4(QuickStep3(QuickStep2(QuickStep1(r, workspace, gitExists),
                                     workspace, readOk, writeOk),
                          agentChoice, mkdir, clineReadOk, clineWriteOk),
               workspace)

\* What a command leaves behind.
SetSetup(r, op) ==
    /\ polytopeYml' = r.yml
    /\ clineSettings' = r.settings
    /\ returned' = r.returned
    /\ terminal' = r.terminal
    /\ out' = r.emitted
    /\ stepStatus' = ApplySteps(stepStatus, r.emitted)
    /\ pendingStarts' = pendingStarts + r.starts
    /\ pendingStarts' <= MaxPendingStarts
    /\ last' = op
    /\ UNCHANGED <<isMonitoring, healthCheckInterval, armed, session, probes,
                   server, downReports, calls, uiVars, toolsShown,
                   workspaceFolder, panelVars>>

\* The webview posts 'startMCP' (the button of step 4).
onStartMCP ==
    \E answer \in Answers, writeOk, openOk \in BOOLEAN :
        SetSetup(HandleStartMCP(Setup, workspaceFolder, answer, writeOk, openOk),
                 "startMCP")

\* The webview posts 'quickStart': runQuickStart(message.agentChoice).
onQuickStart ==
    \E agentChoice \in AgentChoices, gitExists, readOk, writeOk \in BOOLEAN,
       mkdir \in {"exists", "created", "fails"}, clineReadOk, clineWriteOk \in BOOLEAN :
        /\ clineSettings.exists => mkdir = "exists"
        /\ SetSetup(runQuickStart(Setup, agentChoice, workspaceFolder, gitExists,
                                  readOk, writeOk, mkdir, clineReadOk, clineWriteOk),
                    "quickStart")

Init ==
    /\ isMonitoring = FALSE
    /\ healthCheckInterval = 0
    /\ armed = {}
    /\ session = 0
    /\ probes = EmptyBag
    /\ pendingStarts = 0
    /\ server \in ServerModes
    /\ stepStatus = [n \in 1..4 |-> "pending"]
    /\ downReports = 0
    /\ calls = [c \in CallIds |-> IdleCall]
    /\ availableTools = << >>
    /\ toolsShown = "none"
    /\ inputs = << >>
    /\ executedTools = {}
    /\ posted = << >>
    /\ alerts = << >>
    /\ workspaceFolder = TRUE
    /\ polytopeYml = NoFile
    /\ clineSettings = NoFile
    /\ returned = FALSE
    /\ panel = TRUE
    /\ listeners = 1
    /\ terminal = << >>
    /\ last = "init"
    /\ out = << >>

Next ==
    \/ markStep4Done
    \/ startHealthMonitoring
    \/ healthCheckTick
    \/ deactivate
    \/ ProbeAnswered
    \/ ProbeFailure
    \/ ServerTurns

Spec == Init /\ [][Next]_vars

\* The JSON-RPC client under the webview message handler.
ClientNext ==
    \/ onDidReceiveMessage
    \/ FetchEvent
    \/ ExecEvent
    \/ ServerTurns

ClientSpec == Init /\ [][ClientNext]_vars

\* The wizard webview once updateTools() has rendered a tool with its defaults.
ParamInit ==
    /\ isMonitoring = FALSE
    /\ healthCheckInterval = 0
    /\ armed = {}
    /\ session = 0
    /\ probes = EmptyBag
    /\ pendingStarts = 0
    /\ server = "up"
    /\ stepStatus = [n \in 1..4 |-> "pending"]
    /\ downReports = 0
    /\ calls = [c \in CallIds |-> IdleCall]
    /\ \E schema \in Schemas :
         /\ availableTools = <<schema>>
         /\ inputs = <<[k \in 1..Len(schema) |-> RenderInput(schema[k])]>>
    /\ toolsShown = "list"
    /\ executedTools = {}
    /\ posted = << >>
    /\ alerts = << >>
    /\ workspaceFolder = TRUE
    /\ polytopeYml = NoFile
    /\ clineSettings = NoFile
    /\ returned = FALSE
    /\ panel = TRUE
    /\ listeners = 1
    /\ terminal = << >>
    /\ last = "updateTools"
    /\ out = << >>

ParamNext ==
    \/ typeText
    \/ toggleCheckbox
    \/ \E toolIndex \in 0..1 : runTool(toolIndex)

ParamSpec == ParamInit /\ [][ParamNext]_vars

\* The commands that work on files, on whatever the workspace and the settings
\* directory hold when the extension is used.
FileInit ==
    /\ isMonitoring = FALSE
    /\ healthCheckInterval = 0
    /\ armed = {}
    /\ session = 0
    /\ probes = EmptyBag
    /\ pendingStarts = 0
    /\ server = "up"
    /\ stepStatus = [n \in 1..4 |-> "pending"]
    /\ downReports = 0
    /\ calls = [c \in CallIds |-> IdleCall]
    /\ availableTools = << >>
    /\ toolsShown = "none"
    /\ inputs = << >>
    /\ executedTools = {}
    /\ posted = << >>
    /\ alerts = << >>
    /\ workspaceFolder \in BOOLEAN
    /\ polytopeYml \in {NoFile} \cup {File(content) : content \in YmlContents}
    /\ clineSettings \in SettingsFiles
    /\ returned = FALSE
    /\ panel = TRUE
    /\ listeners = 1
    /\ terminal = << >>
    /\ last = "init"
    /\ out = << >>

FileNext ==
    \/ createPolytopeYml
    \/ configureCline

FileSpec == FileInit /\ [][FileNext]_vars

\* The wizard panel, opened and closed, and the messages of its webview.
PanelNext ==
    \/ setupWizard
    \/ onDidDispose
    \/ postMessage

PanelSpec == Init /\ [][PanelNext]_vars

\* The wizard's step 4 button and Quick Start, on whatever the workspace and the
\* settings directory hold.
SetupNext ==
    \/ onStartMCP
    \/ onQuickStart
    \/ startHealthMonitoring

\* The settings files Quick Start is run on: none, one that is not JSON, one
\* whose mcpServers is a number, and one with another server and another key.
SetupSettings ==
    {f \in SettingsFiles :
        \/ ~f.exists
        \/ ~f.json /\ f.text = "not json"
        \/ /\ f.json /\ f.layout = "indented" /\ f.value.kind = "object" /\ f.value.other
           /\ \/ f.value.servers.kind = "number"
              \/ /\ f.value.servers.kind = "object" /\ f.value.servers.x
                 /\ f.value.servers.polytope = "undefined"}

SetupInit ==
    /\ FileInit
    /\ clineSettings \in SetupSettings
    /\ polytopeYml \in {NoFile, File(polytopeContent), File("tools: []\n")}

SetupSpec == SetupInit /\ [][SetupNext]_vars

\* Every request event that keeps becoming possible is delivered.
ClientLiveSpec == ClientSpec /\ SF_vars(FetchEvent) /\ SF_vars(ExecEvent)

\* The event loop delivers what is due: a timer tick whose request can be written
\* issues it, and a request the server cannot answer ends in error or timeout.
TickSends == healthCheckTick /\ probes' # probes
LiveSpec == Spec /\ WF_vars(TickSends) /\ WF_vars(ProbeFailure)

FailureOps == {"ProbeResError", "ProbeReqError", "ProbeTimeout", "ProbeDestroyedError"}
EndOps == {"ProbeEnd", "ProbeEndUnparsable"}
Emits(msgs, m) == \E i \in 1..Len(msgs) : msgs[i] = m
Count(msgs, m) == Cardinality({i \in 1..Len(msgs) : msgs[i] = m})
Unreachable == server # "up"

\* C2: in a monitoring session the server-down report (one error line, one
\* updateStepStatus(4,'pending')) is made at most once, it leaves the monitor
\* Idle, and no probe is issued while the monitor is Idle after it.
C2_DownReportedOnceThenSilent ==
    [][/\ downReports' <= 1
       /\ Emits(out', DownLine) =>
             /\ Count(out', DownLine) = 1
             /\ Count(out', Step4Pending) = 1
             /\ ~isMonitoring'
       /\ InFlight' > InFlight => isMonitoring']_vars

\* C3: startHealthMonitoring() while Monitoring changes nothing, and exactly one
\* recurring timer is armed after it.
C3_StartIdempotentOneTimer ==
    [][(startHealthMonitoring /\ isMonitoring) =>
         /\ out' = << >>
         /\ UNCHANGED <<isMonitoring, healthCheckInterval, armed, session,
                        probes, stepStatus, downReports>>
         /\ Cardinality(armed') = 1]_vars

\* C4: when the server is unreachable while the monitor is Monitoring, then the
\* monitor becomes Idle, with step 4 'pending' unless deactivate() stopped it, or
\* the server comes back: a server that stays unreachable is detected.
\* (Equivalent to [](isMonitoring /\ []Unreachable => <>Detected).)
C4_ServerDownDetected ==
    (isMonitoring /\ Unreachable) ~>
        \/ ~isMonitoring /\ (stepStatus[4] = "pending" \/ last = "deactivate")
        \/ ~Unreachable

C4_Witness ==
    /\ last \in FailureOps /\ Unreachable
    /\ ~isMonitoring /\ stepStatus[4] = "pending" /\ Emits(out, DownLine)

\* C5: a probe-failure callback that runs while the monitoring flag is false
\* publishes nothing and changes neither step 4 nor the monitor.
C5_LateFailureIsNoOp ==
    [][(ProbeFailure /\ ~isMonitoring) =>
         /\ out' = << >>
         /\ UNCHANGED <<isMonitoring, healthCheckInterval, armed, stepStatus>>]_vars

C5_Witness ==
    /\ last \in FailureOps /\ out = << >>
    /\ ~isMonitoring /\ stepStatus[4] = "done"

\* C6: the end of a probe's response, whatever the body, publishes nothing and
\* leaves the monitoring flag, the timer and the step statuses as they were.
C6_AnsweredProbeChangesNothing ==
    [][(\E p \in BagToSet(probes), body \in BodyKinds : ProbeEnd(p, body)) =>
         /\ out' = << >>
         /\ UNCHANGED <<isMonitoring, healthCheckInterval, armed, stepStatus, downReports>>]_vars

C6_Witness ==
    /\ last = "ProbeEndUnparsable"
    /\ isMonitoring /\ healthCheckInterval \in armed

\* C7: the flag goes false -> true only in startHealthMonitoring(), and
\* true -> false only in stopHealthMonitoring() called by deactivate() or by a
\* probe failure (a failed callback, or a tick whose request cannot be written).
C7_Transitions ==
    [][/\ (~isMonitoring /\ isMonitoring') => startHealthMonitoring
       /\ (isMonitoring /\ ~isMonitoring') =>
             \/ deactivate
             \/ ProbeFailure
             \/ (healthCheckTick /\ UNCHANGED probes)]_vars

C7_Witness ==
    /\ last \in EndOps
    /\ ~isMonitoring /\ downReports = 1 /\ stepStatus[4] = "pending"

\* A non-empty text in an array or object input of the tool that JSON.parse rejects.
HasInvalidJson(toolIndex) ==
    /\ toolIndex + 1 \in 1..Len(availableTools)
    /\ \E k \in 1..Len(inputs[toolIndex + 1]) :
         /\ inputs[toolIndex + 1][k].type \in {"array", "object"}
         /\ Trim(inputs[toolIndex + 1][k].value) # ""
         /\ JsonThrows(inputs[toolIndex + 1][k].value)

\* C1: runTool(i) with invalid JSON in an array or object input of tool i posts
\* no 'runMcpTool' message (and so causes no tools/call request).
C1_InvalidJsonAborts ==
    [][\A toolIndex \in 0..1 :
         (runTool(toolIndex) /\ HasInvalidJson(toolIndex)) => posted' = << >>]_vars

\* C8: no fetchTools()/executeTool() failure leaves the message handler as an
\* unhandled rejection.
C8_NoUnhandledRejection ==
    \A c \in CallIds : calls[c].handlerEnd # "unhandled"

\* C9: every executeTool() call eventually settles.
C9_ExecuteToolSettles ==
    \A c \in CallIds :
        (IsExec(c) /\ calls[c].promise = "pending") ~> (calls[c].promise # "pending")

\* C10: no fetchTools() call posts both an updateTools without error and an
\* updateTools with error.
C10_ListXorError ==
    \A c \in CallIds : IsFetch(c) => ~(calls[c].pubList /\ calls[c].pubErr)

C10_Witness ==
    \E c, d \in CallIds :
        /\ IsFetch(c) /\ calls[c].pubList /\ calls[c].promise = "resolved"
        /\ IsFetch(d) /\ calls[d].pubErr /\ calls[d].promise = "rejected"
        /\ last = "FetchEnd" /\ Emits(out, updateToolsError("error"))

\* C11: every fetchTools() call that has failed (its promise is rejected) has
\* published updateTools with an empty list and an error.
C11_FailedFetchPublishesError ==
    \A c \in CallIds :
        (IsFetch(c) /\ calls[c].promise = "rejected") => calls[c].pubErr

\* C12: res 'end' of fetchTools() with a body that is not JSON posts updateTools
\* with an empty list and an error once, posts no other updateTools, and the
\* call has published no list.
C12_InvalidJsonBodyPublishesError ==
    [][\A c \in CallIds :
         FetchEnd(c, [kind |-> "notjson"]) =>
            /\ Count(out', updateToolsError("error")) = 1
            /\ \A i \in 1..Len(out') :
                  out'[i].command = "updateTools" => out'[i] = updateToolsError("error")
            /\ updateToolsError("error").tools = << >>
            /\ updateToolsError("error").error # ""
            /\ calls'[c].pubErr /\ ~calls'[c].pubList]_vars

C12_Witness ==
    /\ last = "FetchEnd"
    /\ out = <<logToTerminal("Response complete", "success"),
               logToTerminal("Failed to parse response", "error"),
               updateToolsError("error")>>
    /\ \E c \in CallIds : IsFetch(c) /\ calls[c].pubErr /\ calls[c].stage = "closed"


SuccessLine == logToTerminal("Tool executed successfully!", "success")
HasErrorLine(msgs) == \E i \in 1..Len(msgs) : msgs[i].command = "terminalOutput" /\ msgs[i].type = "error"
ParsesToObject(body) == body \in {"error", "errorNull", "result", "empty"}
HasErrorField(body) == body \in {"error", "errorNull"}

\* What res 'end' of executeTool does when it takes the body as an error
\* response (rejects with error.message, error line, no success line) and when
\* it does not (success line, no error line).
ExecEndReports(c, asError) ==
    IF asError
    THEN /\ calls'[c].promise = "rejected" /\ calls'[c].reason = "boom"
         /\ HasErrorLine(out') /\ ~Emits(out', SuccessLine)
    ELSE /\ Emits(out', SuccessLine) /\ ~HasErrorLine(out')

\* C13 as stated: a tools/call body that parses to an object is treated as an
\* error response exactly when it has an error field.
C13_ErrorFieldRejects ==
    [][\A c \in CallIds, body \in ExecBodies :
         (ExecEnd(c, body) /\ ParsesToObject(body)) =>
            ExecEndReports(c, HasErrorField(body))]_vars

\* C13, amended: a tools/call body that parses to an object is treated as an
\* error response exactly when its error field is truthy; with an error field
\* that is absent or falsy (null) the success line is logged and no error line.
C13_TruthyErrorRejects ==
    [][\A c \in CallIds, body \in ExecBodies :
         (ExecEnd(c, body) /\ ParsesToObject(body)) =>
            ExecEndReports(c, body = "error")]_vars

C13_Witness ==
    /\ last = "ExecEnd"
    /\ out = <<logToTerminal("Tool execution failed: boom", "error")>>
    /\ \E c \in CallIds :
         IsExec(c) /\ calls[c].promise = "rejected" /\ calls[c].reason = "boom"


\* The tool runTool(toolIndex) runs, its inputs, and the argument map it posts.
ToolAt(toolIndex) == availableTools[toolIndex + 1]
InputsAt(toolIndex) == inputs[toolIndex + 1]
HasTool(toolIndex) == toolIndex + 1 \in 1..Len(availableTools)
PostedParams == posted'[1].parameters

\* C14: the argument map runTool posts holds, for every boolean parameter, the
\* state of its checkbox, whatever the schema default is.
C14_CheckboxStateAlwaysSent ==
    [][\A toolIndex \in 0..1 :
         (runTool(toolIndex) /\ HasTool(toolIndex)) =>
            /\ posted' # << >>
            /\ \A k \in 1..Len(InputsAt(toolIndex)) :
                  InputsAt(toolIndex)[k].type = "boolean" =>
                     /\ k \in DOMAIN PostedParams
                     /\ PostedParams[k] = Bool(InputsAt(toolIndex)[k].checked)]_vars

C14_Witness ==
    /\ last = "runTool" /\ posted # << >>
    /\ \E k \in 1..Len(inputs[1]) :
         /\ availableTools[1][k].type = "boolean"
         /\ availableTools[1][k].default = Bool(TRUE)
         /\ ~inputs[1][k].checked
         /\ posted[1].parameters[k] = Bool(FALSE)


\* An input the user left empty, as collectToolParams tests it.
IsEmpty(input) ==
    IF input.type \in {"array", "object"} THEN Trim(input.value) = "" ELSE input.value = ""

\* The value a non-empty, well-formed field stands for.
UserValue(input) ==
    CASE input.type = "integer" -> parseInt(input.value)
      [] input.type = "number" -> parseFloat(input.value)
      [] input.type \in {"array", "object"} -> JsonParse(input.value)
      [] OTHER -> Str(input.value)

IsInvalidJson(input) ==
    input.type \in {"array", "object"} /\ ~IsEmpty(input) /\ JsonThrows(input.value)

\* C15: in the argument map runTool posts, every non-boolean parameter whose
\* field is non-empty carries the user's value, and every one whose field is
\* empty carries the schema default, or is absent when there is no default.
C15_UserValueOverridesDefault ==
    [][\A toolIndex \in 0..1 :
         (runTool(toolIndex) /\ HasTool(toolIndex) /\ posted' # << >>) =>
            \A k \in 1..Len(InputsAt(toolIndex)) :
               LET input == InputsAt(toolIndex)[k]
                   default == ToolAt(toolIndex)[k].default
               IN input.type # "boolean" =>
                     IF IsEmpty(input)
                     THEN IF default = Undefined
                          THEN k \notin DOMAIN PostedParams
                          ELSE k \in DOMAIN PostedParams /\ PostedParams[k] = default
                     ELSE /\ ~IsInvalidJson(input)
                          /\ k \in DOMAIN PostedParams
                          /\ PostedParams[k] = UserValue(input)]_vars

\* The inputs of the tool are as updateTools() rendered them.
Unedited(toolIndex) ==
    InputsAt(toolIndex) = [k \in 1..Len(ToolAt(toolIndex)) |-> RenderInput(ToolAt(toolIndex)[k])]

\* C16: running a tool whose inputs nobody edited posts an argument map that
\* holds, for every set of required parameters that all declare a default,
\* each of them with its default value.
C16_DefaultsRunUnedited ==
    [][\A toolIndex \in 0..1 :
         (runTool(toolIndex) /\ HasTool(toolIndex) /\ Unedited(toolIndex)) =>
            /\ posted' # << >>
            /\ \A required \in SUBSET (1..Len(ToolAt(toolIndex))) :
                  (\A k \in required : ToolAt(toolIndex)[k].default # Undefined) =>
                     \A k \in required :
                        /\ k \in DOMAIN PostedParams
                        /\ PostedParams[k] = ToolAt(toolIndex)[k].default]_vars


\* C17: res 'end' of fetchTools() with a body whose result.tools is a list posts
\* updateTools with that very list, once, and no other updateTools; with result
\* or result.tools absent it posts the empty list.
C17_ListPublishedUnchanged ==
    [][\A c \in CallIds, body \in FetchBodies :
         (FetchEnd(c, body) /\ body.kind \in {"list", "noresult"}) =>
            /\ Count(out', updateTools(ToolsOf(body))) = 1
            /\ \A i \in 1..Len(out') :
                  out'[i].command = "updateTools" => out'[i] = updateTools(ToolsOf(body))]_vars


\* A step of an executeTool() call: the handler starting it, or one of its
\* request callbacks.
ExecStep == (onDidReceiveMessage /\ last' = "runMcpTool") \/ ExecEvent

\* C18: every step of an executeTool() call, the failing ones included, posts
\* log lines only (no updateTools, no updateStepStatus), and leaves the step
\* statuses and the tools of the webview as they were.
C18_ExecuteToolOnlyLogs ==
    [][ExecStep =>
         /\ \A i \in 1..Len(out') : out'[i].command = "terminalOutput"
         /\ UNCHANGED <<stepStatus, availableTools, inputs>>]_vars

C18_Witness ==
    /\ last \in {"ExecReqError", "ExecEnd"}
    /\ HasErrorLine(out)
    /\ \E c \in CallIds :
         IsExec(c) /\ calls[c].promise = "rejected" /\ calls[c].stage = "closed"
         /\ calls[c].reason \in {"error.message", "parse error"}


\* C19: when createPolytopeYml() returns true, polytope.yml exists and its
\* trimmed content is the include of repo gh:bluetext-io/bluetext.
C19_TrueMeansIncludeInPlace ==
    [][(createPolytopeYml /\ returned') =>
         /\ polytopeYml'.exists
         /\ Trim(polytopeYml'.content) = "include:\n  - repo: gh:bluetext-io/bluetext"]_vars

\* C20: when configureCline() logs its success line, the settings file parses
\* to an object whose mcpServers has the property polytope with the entry for
\* the configured port.
C20_SuccessMeansPolytopeConfigured ==
    [][(configureCline /\ Emits(out', ClineSuccess)) =>
         /\ clineSettings'.exists /\ clineSettings'.json
         /\ clineSettings'.value.kind = "object"
         /\ clineSettings'.value.servers.kind \in {"array", "object"}
         /\ clineSettings'.value.servers.polytope = "new"]_vars

\* C21: in every reachable state a recurring timer is armed exactly when the
\* monitoring flag is true (it is then the one healthCheckInterval names), and at
\* most one timer is armed.
C21_TimerArmedIffMonitoring ==
    /\ (armed # {}) <=> isMonitoring
    /\ isMonitoring => armed = {healthCheckInterval}
    /\ Cardinality(armed) <= 1

\* A failure callback of probe p.
ProbeFails(p) ==
    ProbeResError(p) \/ ProbeReqError(p) \/ ProbeTimeout(p) \/ ProbeDestroyedError(p)

\* C22: while a session is monitoring, the failure of a probe that an earlier,
\* since stopped, session issued leaves the monitor monitoring and does not set
\* step 4 to 'pending'.
C22_OldProbeFailureSparesNewSession ==
    [][\A p \in BagToSet(probes) :
         (isMonitoring /\ p.sess < session /\ ProbeFails(p)) =>
             /\ isMonitoring'
             /\ ~Emits(out', Step4Pending)]_vars

\* What the tools card shows once the webview has handled the updateTools
\* message m: the error banner, the empty note, or the list of m.
Shows(m, shown, tools) ==
    IF "error" \in DOMAIN m THEN shown = "error"
    ELSE IF Len(m.tools) = 0 THEN shown = "empty"
    ELSE shown = "list" /\ tools = m.tools

\* C23: every updateTools message is shown when it is posted, whichever call
\* posted it and whatever other calls have posted before: responses are not
\* matched with requests, so the card shows the response that arrived last.
C23_LastArrivalIsShown ==
    [][\A i \in 1..Len(out') :
          out'[i].command = "updateTools" =>
              Shows(out'[i], toolsShown', availableTools')]_vars

\* The request issued first ('quickStart', call 1) is answered after the one
\* issued second ('fetchMcpTools', call 2) had published its list, and the card
\* shows the list of call 1.
C23_Witness ==
    /\ calls[1].handler = "quickStart" /\ calls[2].handler = "fetchMcpTools"
    /\ calls[2].stage = "closed" /\ calls[2].pubList
    /\ calls[1].stage = "closed" /\ calls[1].pubList
    /\ last = "FetchEnd"
    /\ Emits(out, logToTerminal("Tools loaded successfully!", "success"))
    /\ \E i \in 1..Len(out) :
         /\ out[i].command = "updateTools"
         /\ out[i].tools # << >>
         /\ toolsShown = "list" /\ availableTools = out[i].tools

\* C24: a startHealthMonitoring() that takes the monitor from Idle to Monitoring
\* issues exactly one probe in the call itself, hence before any tick of the
\* timer it arms; a start while Monitoring issues none; and every other probe is
\* issued, one at a time, by a tick of the timer.
C24_FirstProbeImmediateOthersByTick ==
    [][/\ (startHealthMonitoring /\ ~isMonitoring /\ isMonitoring') =>
             probes' = probes (+) SetToBag({[sess |-> session', stage |-> "sent"]})
       /\ (startHealthMonitoring /\ isMonitoring) => probes' = probes
       /\ InFlight' > InFlight =>
             /\ InFlight' = InFlight + 1
             /\ \/ startHealthMonitoring /\ ~isMonitoring
                \/ healthCheckTick]_vars

\* A start has just taken the monitor to Monitoring, with its probe in flight
\* and its timer armed.
C24_Witness ==
    /\ last = "startHealthMonitoring"
    /\ isMonitoring
    /\ healthCheckInterval = session /\ session \in armed
    /\ [sess |-> session, stage |-> "sent"] \in BagToSet(probes)

\* C26: a createPolytopeYml() call that finds a polytope.yml whose content is
\* not the required content, and that runs with skipPrompt set or gets another
\* answer than 'Yes' to the overwrite prompt, leaves the file as it is.
C26_NoOverwriteWithoutYes ==
    [][\A skipPrompt, readOk, writeOk, openOk \in BOOLEAN, answer \in Answers :
         LET r == CreatePolytopeYml(polytopeYml, workspaceFolder, skipPrompt,
                                    readOk, answer, writeOk, openOk)
         IN (/\ last' = "createPolytopeYml"
             /\ polytopeYml.exists /\ polytopeYml.content # polytopeContent
             /\ polytopeYml' = r.yml /\ returned' = r.returned /\ out' = r.emitted
             /\ (skipPrompt \/ answer # "Yes"))
            => polytopeYml' = polytopeYml]_vars

\* createPolytopeYml(true) has just skipped a polytope.yml with other content.
C26_Witness ==
    /\ last = "createPolytopeYml"
    /\ Emits(out, logToTerminal("polytope.yml exists with different content, skipping...", "info"))
    /\ polytopeYml = File("tools: []\n")

\* Whether mcpServers holds a server other than polytope.
HasOtherServer(servers) == servers.kind = "object" /\ servers.x

C25_EachMessageHandledOnce ==
    [][postMessage =>
          Cardinality(FreeCalls(calls) \ FreeCalls(calls')) = 1]_vars

FailedCreateLine == logToTerminal("Failed to create polytope.yml", "error")
DoingStep(msgs, n) == Emits(msgs, updateStepStatus(n, "doing"))

\* C28: a runQuickStart in which createPolytopeYml(true) returns false (no
\* workspace folder, or the file cannot be written) sets step 2 to 'error' and
\* stops: steps 3 and 4 are not set to 'doing', 'pt run --mcp' is not sent and
\* no startHealthMonitoring() is scheduled.
C28_FailedCreateStopsQuickStart ==
    [][(/\ last' = "quickStart"
        /\ Emits(out', NoWorkspaceLine) \/ Emits(out', FailedCreateLine))
       => /\ stepStatus'[2] = "error"
          /\ out'[Len(out')] = updateStepStatus(2, "error")
          /\ ~DoingStep(out', 3) /\ ~DoingStep(out', 4)
          /\ ~\E i \in 1..Len(terminal') : terminal'[i] = PtRun
          /\ pendingStarts' = pendingStarts]_vars

\* Quick Start has just stopped at step 2 because polytope.yml could not be written.
C28_Witness ==
    /\ last = "quickStart"
    /\ workspaceFolder
    /\ Emits(out, FailedCreateLine)
    /\ stepStatus[1] = "done" /\ stepStatus[2] = "error"
    /\ ~polytopeYml.exists

\* C29: runQuickStart sets step 3 to 'done' only when the agent configuration
\* succeeded; when configureCline() has logged its failure, step 3 is 'error'.
C29_Step3DoneOnlyOnSuccess ==
    [][(last' = "quickStart" /\ Emits(out', ClineFailure)) =>
          /\ ~Emits(out', updateStepStatus(3, "done"))
          /\ stepStatus'[3] = "error"]_vars

\* C30: step 4 is set to 'done', and startHealthMonitoring() is scheduled, by
\* the 'startMCP' handler and by runQuickStart only when 'pt run --mcp' has
\* been sent to a terminal.
C30_Step4DoneOnlyAfterPtRun ==
    [][(/\ last' \in {"startMCP", "quickStart"}
        /\ Emits(out', updateStepStatus(4, "done")) \/ pendingStarts' > pendingStarts)
       => \E i \in 1..Len(terminal') : terminal'[i] = PtRun]_vars

=============================================================================
